---- MODULE Spec2Model ----
(***************************************************************************)
(* Black-Scholes pricing engine (services/black_scholes.py) and the two    *)
(* routes that call it (routers/calculator.py, models/requests.py).        *)
(*                                                                         *)
(* Number representation.  The program computes in binary floating point.  *)
(* Here a real x is the integer x * Unit (thousandths), probabilities are  *)
(* integers p * ProbUnit (ten-thousandths), and every arithmetic step      *)
(* rounds to the nearest representable value, as a float operation does.   *)
(* round(x, 2) is therefore a real conversion: it maps thousandths to the  *)
(* nearest multiple of ten thousandths, ties to even.                      *)
(***************************************************************************)
EXTENDS Integers, Sequences, FiniteSets, TLC

(***************************************************************************)
(* Fixed-point arithmetic                                                  *)
(***************************************************************************)
Unit == 1000

ProbUnit == 10000

Abs(x) == IF x < 0 THEN -x ELSE x

\* Python's max(a, b) on numbers
Max(a, b) == IF b > a THEN b ELSE a

\* Python's min(a, b) on numbers
Min(a, b) == IF b < a THEN b ELSE a

\* a / b rounded to the nearest integer (b > 0)
RoundDiv(a, b) == (a + (b \div 2)) \div b

\* x * y of two values in thousandths
MulU(x, y) == RoundDiv(x * y, Unit)

\* round(x, ndigits): x rounded to the nearest multiple of m, ties to the
\* even multiple (Python's round and numpy's float64.__round__)
RoundHalfEven(x, m) ==
    LET q == x \div m
        r == x % m
    IN  IF 2 * r < m THEN q * m
        ELSE IF 2 * r > m THEN (q + 1) * m
        ELSE IF q % 2 = 0 THEN q * m ELSE (q + 1) * m

\* round(x, 2) of a value in thousandths
Round2(x) == RoundHalfEven(x, Unit \div 100)

RECURSIVE SqrtIter(_, _)
SqrtIter(n, x) ==
    LET y == (x + n \div x) \div 2
    IN  IF y >= x THEN x ELSE SqrtIter(n, y)

\* np.sqrt(t): Newton's iteration for the integer square root of t * Unit
Sqrt(t) == IF t = 0 THEN 0 ELSE SqrtIter(t * Unit, t * Unit)

Ln2 == 693

\* ln of x in [0.75, 1.5) by 2 * atanh((x - 1) / (x + 1))
LnNear1(x) ==
    LET z  == RoundDiv((x - Unit) * Unit * 10, x + Unit)   \* z * 10^4
        z2 == RoundDiv(z * z, ProbUnit)
        z3 == RoundDiv(z2 * z, ProbUnit)
        z5 == RoundDiv(z3 * z2, ProbUnit)
    IN  RoundDiv(2 * (z + RoundDiv(z3, 3) + RoundDiv(z5, 5)), 10)

RECURSIVE Ln(_)
\* np.log(x) for x > 0, in thousandths
Ln(x) ==
    IF x >= (3 * Unit) \div 2 THEN Ln2 + Ln(RoundDiv(x, 2))
    ELSE IF x < (3 * Unit) \div 4 THEN Ln(2 * x) - Ln2
    ELSE LnNear1(x)

RECURSIVE ExpSeries(_, _, _, _)
\* sum of the alternating series of exp(-x), 0 <= x < 1, in ProbUnit
ExpSeries(x, k, term, acc) ==
    IF term = 0 THEN acc
    ELSE LET next == RoundDiv(term * x, Unit * k)
         IN  ExpSeries(x, k + 1, next,
                       IF k % 2 = 1 THEN acc - next ELSE acc + next)

InvE == 3679

RECURSIVE ExpNeg(_)
\* np.exp(-x) for x >= 0 in thousandths; the result is in ProbUnit
ExpNeg(x) ==
    IF x >= 12 * Unit THEN 0
    ELSE IF x >= Unit THEN RoundDiv(InvE * ExpNeg(x - Unit), ProbUnit)
    ELSE ExpSeries(x, 1, ProbUnit, ProbUnit)

\* scipy.stats.norm.cdf at 0.0, 0.1, ..., 4.0, in ProbUnit
CdfTable ==
    << 5000, 5398, 5793, 6179, 6554, 6915, 7257, 7580, 7881, 8159,
       8413, 8643, 8849, 9032, 9192, 9332, 9452, 9554, 9641, 9713,
       9772, 9821, 9861, 9893, 9918, 9938, 9953, 9965, 9974, 9981,
       9987, 9990, 9993, 9995, 9997, 9998, 9998, 9999, 9999, 10000,
       10000 >>

\* norm.cdf(d) for d >= 0: table lookup with linear interpolation
CdfPos(d) ==
    IF d >= 4 * Unit THEN ProbUnit
    ELSE LET k  == d \div 100
             lo == CdfTable[k + 1]
             hi == CdfTable[k + 2]
         IN  lo + RoundDiv((hi - lo) * (d % 100), 100)

\* scipy.stats.norm.cdf(d), d in thousandths, result in ProbUnit
NormCdf(d) == IF d >= 0 THEN CdfPos(d) ELSE ProbUnit - CdfPos(-d)

InvSqrt2Pi == 3989

\* scipy.stats.norm.pdf(d), d in thousandths, result in ProbUnit
NormPdf(d) ==
    IF Abs(d) >= 8 * Unit THEN 0
    ELSE RoundDiv(InvSqrt2Pi * ExpNeg(RoundDiv(d * d, 2 * Unit)), ProbUnit)

(***************************************************************************)
(* BlackScholesEngine.calculate_option_prices                              *)
(***************************************************************************)
\* The largest finite value of the number format, standing for
\* sys.float_info.max: a Python float power that exceeds it raises
\* OverflowError instead of returning inf.
FloatMax == 1000000

Raise(exc) == [kind |-> "raise", exc |-> exc]

\* line 36: any(x <= 0 for x in [current_price, strike_price,
\*                               time_to_maturity, volatility])
AnyNotPositive(S, K, T, vol) == S <= 0 \/ K <= 0 \/ T <= 0 \/ vol <= 0

\* line 38: any(not 0 <= x <= 1 for x in [risk_free_rate, dividend_yield])
AnyOutsideUnitInterval(r, q) ==
    ~(0 <= r /\ r <= Unit) \/ ~(0 <= q /\ q <= Unit)

\* line 43: volatility ** 2 on a Python float.  Inside generate_heatmap_data
\* the volatility is a numpy float64, whose power returns inf instead; the
\* volatility ranges drawn for grids stay far below the threshold.
PowOverflows(vol) == MulU(vol, vol) > FloatMax

\* lines 42-44: d1, given sigRtT = volatility * np.sqrt(time_to_maturity)
D1(S, K, T, vol, r, q, sigRtT) ==
    RoundDiv((Ln(RoundDiv(S * Unit, K))
                + MulU(r - q + RoundDiv(MulU(vol, vol), 2), T)) * Unit,
             sigRtT)

\* lines 49-76: prices and Greeks from d1, d2 and the two discount factors.
\* Prices come out in thousandths, a multiple of ten after round(., 2);
\* deltas and gamma in ten-thousandths after round(., 4).
PricesAndGreeks(S, K, vol, sqrtT, d1, d2, discount_factor, dividend_discount) ==
    LET N_d1     == NormCdf(d1)
        N_d2     == NormCdf(d2)
        N_neg_d1 == NormCdf(-d1)
        N_neg_d2 == NormCdf(-d2)
        Sq == RoundDiv(S * dividend_discount, ProbUnit)
        Kr == RoundDiv(K * discount_factor, ProbUnit)
        call_price == RoundDiv(Sq * N_d1, ProbUnit) - RoundDiv(Kr * N_d2, ProbUnit)
        put_price  == RoundDiv(Kr * N_neg_d2, ProbUnit)
                        - RoundDiv(Sq * N_neg_d1, ProbUnit)
        call_delta == dividend_discount * N_d1               \* * 10^8
        put_delta  == -(dividend_discount * N_neg_d1)        \* * 10^8
        gamma      == RoundDiv(NormPdf(d1) * Unit * 10,
                               MulU(MulU(S, vol), sqrtT))    \* * 10^5
    IN  [kind       |-> "ok",
         call_price |-> Round2(call_price),
         put_price  |-> Round2(put_price),
         call_delta |-> RoundHalfEven(call_delta, ProbUnit) \div ProbUnit,
         put_delta  |-> RoundHalfEven(put_delta, ProbUnit) \div ProbUnit,
         gamma      |-> RoundHalfEven(gamma, 10) \div 10]

\* lines 42-46: d1 and d2 from the two factors of the denominator
FromVolRootT(S, K, T, vol, r, q, sqrtT, sigRtT, d1) ==
    PricesAndGreeks(S, K, vol, sqrtT, d1, d1 - sigRtT,
                    ExpNeg(MulU(r, T)), ExpNeg(MulU(q, T)))

FromRootT(S, K, T, vol, r, q, sqrtT, sigRtT) ==
    FromVolRootT(S, K, T, vol, r, q, sqrtT, sigRtT,
                 D1(S, K, T, vol, r, q, sigRtT))

\* lines 42-76: the closed-form prices and Greeks of validated inputs
BlackScholes(S, K, T, vol, r, q) ==
    FromRootT(S, K, T, vol, r, q, Sqrt(T), MulU(vol, Sqrt(T)))

\* calculate_option_prices(current_price, strike_price, time_to_maturity,
\*                         volatility, risk_free_rate, dividend_yield)
calculate_option_prices(S, K, T, vol, r, q) ==
    IF AnyNotPositive(S, K, T, vol) THEN Raise("ValueError")
    ELSE IF AnyOutsideUnitInterval(r, q) THEN Raise("ValueError")
    ELSE IF PowOverflows(vol) THEN Raise("OverflowError")
    ELSE BlackScholes(S, K, T, vol, r, q)

(***************************************************************************)
(* BlackScholesEngine.generate_heatmap_data                                *)
(***************************************************************************)
\* Optional[int]: None is the empty sequence, the integer n is << n >>
None == << >>

Some(n) == << n >>

\* sorted(pair) of a two-element tuple
Sorted(pair) == << Min(pair[1], pair[2]), Max(pair[1], pair[2]) >>

\* lines 108-110: a single spot point becomes a range around it
WidenSpot(rng) ==
    IF rng[1] = rng[2]
    THEN << Max(Unit \div 10, MulU(rng[1], 900)), MulU(rng[2], 1100) >>
    ELSE rng

\* lines 112-114: a single volatility point becomes a range around it
WidenVol(rng) ==
    IF rng[1] = rng[2]
    THEN << Max(Unit \div 100, MulU(rng[1], 500)),
            Min(2 * Unit, MulU(rng[2], 1500)) >>
    ELSE rng

\* np.linspace(start, stop, num), num > 1: num evenly spaced points, the
\* last one set to stop; element i of the program is element i + 1 here
Linspace(start, stop, num) ==
    [i \in 1..num |->
        IF i = num THEN stop
        ELSE start + RoundDiv((i - 1) * (stop - start), num - 1)]

\* np.zeros((n, n))
Zeros(n) == [i \in 1..n |-> [j \in 1..n |-> 0]]

\* lines 129-131: the cell of a spot or volatility that is not positive
GuardCell(spot, K, T, r) ==
    [call |-> 0,
     put  |-> Max(0, RoundDiv(K * ExpNeg(MulU(r, T)), ProbUnit) - spot)]

\* lines 146-149: the cell when the pricer raised ValueError
ExceptCell(spot, K) ==
    [call |-> Max(0, spot - K), put |-> Max(0, K - spot)]

\* A faulty CellGuard: zero passes the guard
CellGuardStrict(spot, vol) == spot < 0 \/ vol < 0

\* The guard of line 129
CellGuard(spot, vol) == spot <= 0 \/ vol <= 0

\* A faulty CellOfResult: the except clause does not name ValueError
CellOfResultUncaught(result, spot, K) ==
    IF result.kind = "ok"
    THEN [branch |-> "pricer", raised |-> "",
          cell |-> [call |-> result.call_price, put |-> result.put_price]]
    ELSE [branch |-> "none", raised |-> result.exc,
          cell |-> [call |-> 0, put |-> 0]]

\* lines 143-149: the cell from the pricer's outcome.  branch records which
\* path assigned the cell; an exception the except clause does not name
\* leaves the cell alone and ends the call.
CellOfResult(result, spot, K) ==
    IF result.kind = "ok"
    THEN [branch |-> "pricer", raised |-> "",
          cell |-> [call |-> result.call_price, put |-> result.put_price]]
    ELSE IF result.exc \in {"ValueError", "ZeroDivisionError"}
    THEN [branch |-> "except", raised |-> "", cell |-> ExceptCell(spot, K)]
    ELSE [branch |-> "none", raised |-> result.exc,
          cell |-> [call |-> 0, put |-> 0]]

\* lines 127-149: the body of the loop for one cell
CellBody(spot, vol, base) ==
    IF CellGuard(spot, vol)
    THEN [branch |-> "guard", raised |-> "",
          cell |-> GuardCell(spot, base.strike_price, base.time_to_maturity,
                             base.risk_free_rate)]
    ELSE CellOfResult(
             calculate_option_prices(
                 spot, base.strike_price, base.time_to_maturity,
                 vol, base.risk_free_rate, base.dividend_yield),
             spot, base.strike_price)

\* A faulty SetCell: row and column exchanged
SetCellTransposed(m, i, j, v) == [m EXCEPT ![j][i] = v]

\* Assignment to matrix cell [i, j]
SetCell(m, i, j, v) == [m EXCEPT ![i][j] = v]

\* The loop state after the body of one cell has run
AfterCell(acc, i, j, b) ==
    IF b.raised # "" THEN [acc EXCEPT !.raised = b.raised]
    ELSE [call_prices |-> SetCell(acc.call_prices, i, j, b.cell.call),
          put_prices  |-> SetCell(acc.put_prices, i, j, b.cell.put),
          branch      |-> SetCell(acc.branch, i, j, b.branch),
          writes      |-> SetCell(acc.writes, i, j, acc.writes[i][j] + 1),
          raised      |-> ""]

RECURSIVE FillCells(_, _, _, _, _, _)
\* lines 125-149: the nested loop, cell k = (i - 1) * n + (j - 1) in row-major
\* order; acc carries the two matrices, the branch taken and the number of
\* assignments of each cell, and the exception that ended the loop, if any
FillCells(k, n, spots, vols, base, acc) ==
    CHOOSE final \in
        { IF k = n * n \/ a.raised # "" THEN a
          ELSE LET i == (k \div n) + 1
                   j == (k % n) + 1
               IN  FillCells(k + 1, n, spots, vols, base,
                             AfterCell(a, i, j, CellBody(spots[i], vols[j], base)))
          : a \in { acc } } : TRUE

\* lines 151-157: the dictionary returned, or the exception that ended the
\* loop.  Besides the four returned entries the record carries what the
\* call did: the unrounded axes, and the branch and the assignment count of
\* every cell.
HeatmapResult(done, spot_values, volatility_values, n) ==
    IF done.raised # "" THEN Raise(done.raised)
    ELSE [kind              |-> "ok",
          call_prices       |-> done.call_prices,
          put_prices        |-> done.put_prices,
          spot_values       |-> [i \in 1..n |-> Round2(spot_values[i])],
          volatility_values |-> [i \in 1..n |-> Round2(volatility_values[i])],
          spots             |-> spot_values,
          vols              |-> volatility_values,
          branch            |-> done.branch,
          writes            |-> done.writes]

\* lines 120-157: the matrices of zeros, the loop and the result
HeatmapOnAxes(base, spot_values, volatility_values, n) ==
    HeatmapResult(
        FillCells(0, n, spot_values, volatility_values, base,
                  [call_prices |-> Zeros(n), put_prices |-> Zeros(n),
                   branch |-> [i \in 1..n |-> [j \in 1..n |-> "none"]],
                   writes |-> Zeros(n), raised |-> ""]),
        spot_values, volatility_values, n)

\* lines 116-118: the two axes of the (sorted, widened) ranges
HeatmapOnRanges(base, srng, vrng, n) ==
    HeatmapOnAxes(base, Linspace(srng[1], srng[2], n),
                  Linspace(vrng[1], vrng[2], n), n)

\* generate_heatmap_data(base_params, spot_range, volatility_range, grid_size)
generate_heatmap_data(base, spot_range, volatility_range, grid_size) ==
    IF grid_size = None THEN Raise("TypeError")      \* np.linspace(.., None)
    ELSE HeatmapOnRanges(base, WidenSpot(Sorted(spot_range)),
                         WidenVol(Sorted(volatility_range)), grid_size[1])

(***************************************************************************)
(* Request schemas (models/requests.py) and routes (routers/calculator.py) *)
(***************************************************************************)
\* HeatmapRequest.grid_size: Field(10, ge=5, le=20)
GridSizeMin == 5

GridSizeMax == 20

\* CalculationRequest: the Field constraints of its six fields
ValidCalculationRequest(req) ==
    /\ req.current_price > 0
    /\ req.strike_price > 0
    /\ req.time_to_maturity > 0
    /\ req.volatility > 0 /\ req.volatility <= 5 * Unit
    /\ req.risk_free_rate >= 0 /\ req.risk_free_rate <= Unit
    /\ req.dividend_yield >= 0 /\ req.dividend_yield <= Unit

\* A faulty ValidHeatmapRequest: the four range fields are unconstrained
ValidHeatmapRequestBaseOnly(req) ==
    /\ ValidCalculationRequest(req.base_params)
    /\ \/ req.grid_size = None
       \/ req.grid_size[1] >= GridSizeMin /\ req.grid_size[1] <= GridSizeMax

\* HeatmapRequest: the Field constraints; grid_size is Optional[int], so
\* None passes and the bounds apply to an integer only
ValidHeatmapRequest(req) ==
    /\ ValidCalculationRequest(req.base_params)
    /\ req.spot_min > 0
    /\ req.spot_max > 0
    /\ req.vol_min > 0 /\ req.vol_min <= 5 * Unit
    /\ req.vol_max > 0 /\ req.vol_max <= 5 * Unit
    /\ \/ req.grid_size = None
       \/ req.grid_size[1] >= GridSizeMin /\ req.grid_size[1] <= GridSizeMax

NotCalled == [kind |-> "notcalled"]

\* What a route answers for the engine's outcome: the result as the response
\* model, or HTTP 400 for any exception (lines 23-24 and 38-39)
Respond(outcome) ==
    IF outcome.kind = "raise" THEN [kind |-> "http400", detail |-> outcome.exc]
    ELSE [kind |-> "http200"]

\* The engine call of POST /calculate
EngineCalculate(req) ==
    calculate_option_prices(req.current_price, req.strike_price,
                            req.time_to_maturity, req.volatility,
                            req.risk_free_rate, req.dividend_yield)

\* The engine call of POST /heatmap
EngineHeatmap(req) ==
    generate_heatmap_data(req.base_params, << req.spot_min, req.spot_max >>,
                          << req.vol_min, req.vol_max >>, req.grid_size)

(***************************************************************************)
(* Inputs of the model                                                     *)
(***************************************************************************)
\* The largest grid_size the model draws (the schema allows up to 20)
MaxGridSize == 6

Params(S, K, T, vol, r, q) ==
    [current_price |-> S, strike_price |-> K, time_to_maturity |-> T,
     volatility |-> vol, risk_free_rate |-> r, dividend_yield |-> q]

\* Argument sets of calculate_option_prices: valid and invalid values of
\* every parameter, and a volatility whose square exceeds FloatMax
PricerArgs ==
    { Params(S, K, T, vol, r, q) :
        S \in {-5000, 0, 100000}, K \in {0, 100000}, T \in {0, 1000},
        vol \in {0, 200, 40000}, r \in {-10, 50, 1500}, q \in {0, 20, 1001} }

\* Base parameter sets of a grid: two valid ones, then one with each
\* of strike, maturity, rate and dividend yield invalid
BaseArgs ==
    { Params(100000, 100000, 1000, 200, 50, 20),
      Params(100000, 105500, 500, 200, 30, 0),
      Params(100000, 0, 1000, 200, 50, 0),
      Params(100000, 100000, 0, 200, 50, 0),
      Params(100000, 100000, 1000, 200, 1500, 0),
      Params(100000, 100000, 1000, 200, 50, -20) }

\* (spot_min, spot_max) as given by the caller: a single point, a reversed
\* range, a narrow range, a single small point, and two ranges that reach
\* zero and below (which the request schema rejects)
SpotRanges ==
    { << 100000, 100000 >>, << 110000, 90000 >>, << 100000, 101000 >>,
      << 50, 50 >>, << 0, 100000 >>, << -5001, 5000 >> }

\* (vol_min, vol_max) as given by the caller: a single point, a range in
\* either order, a narrow range, the largest single point the schema
\* allows, and a range that starts at zero (which the schema rejects)
VolRanges ==
    { << 200, 200 >>, << 100, 400 >>, << 400, 100 >>, << 10, 20 >>,
      << 5000, 5000 >>, << 0, 400 >> }

\* grid_size as an integer
IntGridSizes == { Some(n) : n \in GridSizeMin..Min(GridSizeMax, MaxGridSize) }

HeatmapRequests(bases, spots, vols, sizes) ==
    { [base_params |-> b, spot_min |-> s[1], spot_max |-> s[2],
       vol_min |-> v[1], vol_max |-> v[2], grid_size |-> g] :
        b \in bases, s \in spots, v \in vols, g \in sizes }

\* Direct calls of generate_heatmap_data pass grid_size: int
HeatmapArgs == HeatmapRequests(BaseArgs, SpotRanges, VolRanges, IntGridSizes)

\* Request bodies of POST /heatmap: grid_size may also be null
HeatmapBodies ==
    HeatmapRequests(BaseArgs, SpotRanges, VolRanges, IntGridSizes \cup { None })

\* The smaller input sets of SpecHistory
FewPricerArgs ==
    { Params(S, 100000, 1000, vol, 50, q) :
        S \in {0, 100000}, vol \in {200, 40000}, q \in {0, 20} }

FewHeatmapBodies ==
    HeatmapRequests({ Params(100000, 100000, 1000, 200, 50, 20),
                      Params(100000, 0, 1000, 200, 50, 0) },
                    { << 100000, 100000 >>, << 0, 100000 >> },
                    { << 200, 200 >> }, { Some(GridSizeMin), None })

FewHeatmapArgs == { b \in FewHeatmapBodies : b.grid_size # None }

(***************************************************************************)
(* State                                                                   *)
(***************************************************************************)
VARIABLES
    engine,   \* the attributes of the module-level BlackScholesEngine bs_engine
    last,     \* the call being answered: operation, caller, arguments, outcome
    memo      \* an earlier call, kept for comparison

vars == << engine, last, memo >>

Idle == [op |-> "idle", via |-> "", args |-> << >>,
         outcome |-> NotCalled, response |-> NotCalled]

\* BlackScholesEngine.__init__: pass
EngineInit == {}

\* A faulty SelfAfterCall: the method keeps its outcome on the instance
SelfAfterCallCaching(self, op, outcome) == self \cup { << op, outcome.kind >> }

\* The attributes of self after a method call: neither method assigns one
SelfAfterCall(self, op, outcome) == self

Init ==
    /\ engine = EngineInit
    /\ last = Idle
    /\ memo = Idle

\* The engine method op ran with arguments a and ended with outcome out
Called(op, via, a, out, response) ==
    /\ last' = [op |-> op, via |-> via, args |-> a,
                outcome |-> out, response |-> response]
    /\ engine' = SelfAfterCall(engine, op, out)

\* FastAPI answered 422 for a request its schema rejects; no handler ran
Rejected(op, a) ==
    /\ last' = [op |-> op, via |-> "route", args |-> a,
                outcome |-> NotCalled, response |-> [kind |-> "http422"]]
    /\ UNCHANGED engine

\* The handler of a route: the engine call and the response made of it
Handled(op, a, out) == Called(op, "route", a, out, Respond(out))

\* A direct call of engine.calculate_option_prices
CallPricer(pool) ==
    /\ last.op = "idle"
    /\ \E a \in pool : Called("calculate", "engine", a, EngineCalculate(a), NotCalled)
    /\ UNCHANGED memo

\* A direct call of engine.generate_heatmap_data
CallHeatmap(pool) ==
    /\ last.op = "idle"
    /\ \E a \in pool : Called("heatmap", "engine", a, EngineHeatmap(a), NotCalled)
    /\ UNCHANGED memo

\* POST /calculate: schema validation, then the handler of lines 10-24
PostCalculate(pool) ==
    /\ last.op = "idle"
    /\ \E a \in pool :
         IF ValidCalculationRequest(a)
         THEN Handled("calculate", a, EngineCalculate(a))
         ELSE Rejected("calculate", a)
    /\ UNCHANGED memo

\* POST /heatmap: schema validation, then the handler of lines 27-39
PostHeatmap(pool) ==
    /\ last.op = "idle"
    /\ \E a \in pool :
         IF ValidHeatmapRequest(a)
         THEN Handled("heatmap", a, EngineHeatmap(a))
         ELSE Rejected("heatmap", a)
    /\ UNCHANGED memo

\* The call returns to its caller
Return ==
    /\ last.op # "idle"
    /\ last' = Idle
    /\ UNCHANGED << engine, memo >>

\* The call returns to its caller, and is kept for comparison
Remember ==
    /\ last.op # "idle"
    /\ memo' = last
    /\ last' = Idle
    /\ UNCHANGED engine

Next ==
    \/ CallPricer(PricerArgs)
    \/ CallHeatmap(HeatmapArgs)
    \/ PostCalculate(PricerArgs)
    \/ PostHeatmap(HeatmapBodies)
    \/ Return

Spec == Init /\ [][Next]_vars

\* Sequences of calls on the one shared engine, over the smaller input sets
NextHistory ==
    \/ CallPricer(FewPricerArgs)
    \/ CallHeatmap(FewHeatmapArgs)
    \/ PostCalculate(FewPricerArgs)
    \/ PostHeatmap(FewHeatmapBodies)
    \/ Return
    \/ Remember

SpecHistory == Init /\ [][NextHistory]_vars

(***************************************************************************)
(* Properties                                                              *)
(***************************************************************************)
\* The engine ran calculate_option_prices for the call in last
PricerRan == last.op = "calculate" /\ last.outcome.kind # "notcalled"

\* The engine ran generate_heatmap_data for the call in last
HeatmapRan == last.op = "heatmap" /\ last.outcome.kind # "notcalled"

\* generate_heatmap_data returned its dictionary
HeatmapReturned == last.op = "heatmap" /\ last.outcome.kind = "ok"

Indices(seq) == 1..Len(seq)

StrictlyIncreasing(seq) == \A i \in 1..(Len(seq) - 1) : seq[i] < seq[i + 1]

\* A value with at most two decimal places
TwoDecimals(x) == x % (Unit \div 100) = 0

OutsidePricerDomain(a) ==
    \/ a.current_price <= 0 \/ a.strike_price <= 0
    \/ a.time_to_maturity <= 0 \/ a.volatility <= 0
    \/ a.risk_free_rate < 0 \/ a.risk_free_rate > Unit
    \/ a.dividend_yield < 0 \/ a.dividend_yield > Unit

\* C1: calculate_option_prices raises ValueError exactly when one of
\* current_price, strike_price, time_to_maturity, volatility is <= 0 or one
\* of risk_free_rate, dividend_yield is outside [0, 1]; for every other
\* input it returns the five fields and fails in no other way.
C1_FailsIffOutsideDomain ==
    PricerRan =>
        /\ (last.outcome = Raise("ValueError")) <=> OutsidePricerDomain(last.args)
        /\ ~OutsidePricerDomain(last.args) =>
              /\ last.outcome.kind = "ok"
              /\ DOMAIN last.outcome = {"kind", "call_price", "put_price",
                                        "call_delta", "put_delta", "gamma"}

\* C2: generate_heatmap_data never fails outward: whatever it is called
\* with, it returns its result, and no exception of a cell leaves the loop.
C2_NeverFailsOutward == HeatmapRan => last.outcome.kind = "ok"

\* C3: for a valid request with grid_size = n, both matrices are n x n and
\* both returned (rounded) axes have n elements and are strictly increasing.
C3_GridShape ==
    HeatmapReturned /\ last.via = "route" =>
        LET n == last.args.grid_size[1]
            g == last.outcome
        IN  /\ Len(g.call_prices) = n /\ Len(g.put_prices) = n
            /\ \A i \in 1..n : Len(g.call_prices[i]) = n /\ Len(g.put_prices[i]) = n
            /\ Len(g.spot_values) = n /\ Len(g.volatility_values) = n
            /\ StrictlyIncreasing(g.spot_values)
            /\ StrictlyIncreasing(g.volatility_values)

\* C4: when the request gives a single spot point (a single volatility
\* point), the widened range has min < max, so the axis built on it runs
\* from a smaller first value to a larger last value.
C4_WideningNonDegenerate ==
    HeatmapReturned /\ last.via = "route" =>
        LET n == last.args.grid_size[1]
            g == last.outcome
        IN  /\ last.args.spot_min = last.args.spot_max => g.spots[1] < g.spots[n]
            /\ last.args.vol_min = last.args.vol_max => g.vols[1] < g.vols[n]

\* K * exp(-r * T) of the base parameters b
DiscountedStrike(b) ==
    RoundDiv(b.strike_price * ExpNeg(MulU(b.risk_free_rate, b.time_to_maturity)),
             ProbUnit)

\* C5: every cell whose spot is <= 0 or whose volatility is <= 0 holds
\* call = 0 and put = max(0, K * exp(-r * T) - spot), and the pricer was not
\* invoked for it; at spot = 0 the put is K * exp(-r * T).
C5_GuardCells ==
    HeatmapReturned =>
        LET g == last.outcome
            b == last.args.base_params
            floor == DiscountedStrike(b)
        IN  \A i \in Indices(g.spots), j \in Indices(g.vols) :
                g.spots[i] <= 0 \/ g.vols[j] <= 0 =>
                    /\ g.call_prices[i][j] = 0
                    /\ g.put_prices[i][j] = Max(0, floor - g.spots[i])
                    /\ g.spots[i] = 0 /\ floor >= 0 => g.put_prices[i][j] = floor
                    /\ g.branch[i][j] = "guard"

\* C5 witness: a grid was returned with a cell at spot = 0 whose put is the
\* discounted strike, strictly below the strike itself
C5_Witness ==
    /\ HeatmapReturned
    /\ \E i \in Indices(last.outcome.spots), j \in Indices(last.outcome.vols) :
          /\ last.outcome.spots[i] = 0
          /\ last.outcome.branch[i][j] = "guard"
          /\ last.outcome.put_prices[i][j] > 0
          /\ last.outcome.put_prices[i][j] < last.args.base_params.strike_price

\* The pricer's outcome for cell (i, j) of the grid in last
PricerAt(i, j) ==
    calculate_option_prices(
        last.outcome.spots[i], last.args.base_params.strike_price,
        last.args.base_params.time_to_maturity, last.outcome.vols[j],
        last.args.base_params.risk_free_rate,
        last.args.base_params.dividend_yield)

\* The pricer is invoked for cell (i, j) and raises
PricerFailsAt(i, j) ==
    /\ last.outcome.spots[i] > 0
    /\ last.outcome.vols[j] > 0
    /\ PricerAt(i, j).kind = "raise"

\* C7: when the pricer raises for a cell, the cell holds the undiscounted
\* intrinsic value, call = max(0, spot - K) and put = max(0, K - spot), the
\* loop goes on, and every other cell holds what it holds without the failure:
\* the guard's value where spot or volatility is <= 0, the pricer's prices
\* elsewhere.
C7_PricerFailureFallsBack ==
    HeatmapRan /\ last.args.grid_size # None =>
        /\ last.outcome.kind = "ok"
        /\ LET g == last.outcome
               K == last.args.base_params.strike_price
           IN  \A i \in Indices(g.spots), j \in Indices(g.vols) :
                 IF PricerFailsAt(i, j)
                 THEN /\ g.call_prices[i][j] = Max(0, g.spots[i] - K)
                      /\ g.put_prices[i][j] = Max(0, K - g.spots[i])
                 ELSE IF g.spots[i] <= 0 \/ g.vols[j] <= 0
                 THEN /\ g.call_prices[i][j] = 0
                      /\ g.put_prices[i][j] =
                            Max(0, DiscountedStrike(last.args.base_params) - g.spots[i])
                 ELSE /\ g.call_prices[i][j] = PricerAt(i, j).call_price
                      /\ g.put_prices[i][j] = PricerAt(i, j).put_price

\* C7 witness: a returned grid in which the pricer raised for one cell, with
\* a positive intrinsic value there, and another cell was filled otherwise
C7_Witness ==
    /\ HeatmapReturned
    /\ \E i \in Indices(last.outcome.spots), j \in Indices(last.outcome.vols) :
          /\ PricerFailsAt(i, j)
          /\ last.outcome.branch[i][j] = "except"
          /\ last.outcome.call_prices[i][j] + last.outcome.put_prices[i][j] > 0
    /\ \E i \in Indices(last.outcome.spots), j \in Indices(last.outcome.vols) :
          last.outcome.branch[i][j] = "guard"

\* C8: every cell of both matrices, the cells of either fallback included,
\* and every returned axis value is rounded to 2 decimal places.
C8_EverythingRounded ==
    HeatmapReturned =>
        LET g == last.outcome
        IN  /\ \A i \in Indices(g.spots), j \in Indices(g.vols) :
                  TwoDecimals(g.call_prices[i][j]) /\ TwoDecimals(g.put_prices[i][j])
            /\ \A i \in Indices(g.spot_values) : TwoDecimals(g.spot_values[i])
            /\ \A j \in Indices(g.volatility_values) :
                  TwoDecimals(g.volatility_values[j])

\* C9: every cell (i, j) of the n x n cross product is assigned exactly once;
\* where no fallback applies the cell holds the pricer's call_price and
\* put_price for spot_values[i] and volatility_values[j] of the loop, with
\* strike, maturity, rate and dividend yield of the base; and entry i of a
\* returned axis is the rounded entry i of the axis of the loop, so rows
\* index the spot axis and columns the volatility axis.
C9_CellsFollowAxes ==
    HeatmapReturned =>
        LET g == last.outcome
            n == last.args.grid_size[1]
        IN  /\ Len(g.spots) = n /\ Len(g.vols) = n
            /\ \A i \in 1..n, j \in 1..n :
                  /\ g.writes[i][j] = 1
                  /\ g.spots[i] > 0 /\ g.vols[j] > 0 /\ PricerAt(i, j).kind = "ok" =>
                        /\ g.call_prices[i][j] = PricerAt(i, j).call_price
                        /\ g.put_prices[i][j] = PricerAt(i, j).put_price
            /\ \A i \in 1..n :
                  /\ g.spot_values[i] = Round2(g.spots[i])
                  /\ g.volatility_values[i] = Round2(g.vols[i])

\* C9 witness: a returned grid priced in every cell whose matrix is not
\* symmetric, so that exchanging rows and columns would show
C9_Witness ==
    /\ HeatmapReturned
    /\ \A i \in Indices(last.outcome.spots), j \in Indices(last.outcome.vols) :
          last.outcome.branch[i][j] = "pricer"
    /\ last.outcome.call_prices[1][2] # last.outcome.call_prices[2][1]

\* C10: for a request that passes the schema, every value of both axes is
\* > 0 after sorting and widening, neither fallback branch is taken and
\* every cell is computed by the pricer.
C10_ValidRequestNeverFallsBack ==
    HeatmapRan /\ last.via = "route" /\ last.args.grid_size # None =>
        /\ last.outcome.kind = "ok"
        /\ LET g == last.outcome
           IN  /\ \A i \in Indices(g.spots) : g.spots[i] > 0
               /\ \A j \in Indices(g.vols) : g.vols[j] > 0
               /\ \A i \in Indices(g.spots), j \in Indices(g.vols) :
                     g.branch[i][j] = "pricer"

\* C10 witness: a request of a single small spot point and a single
\* volatility point passed the schema and every cell was priced
C10_Witness ==
    /\ HeatmapReturned /\ last.via = "route"
    /\ last.args.spot_min = last.args.spot_max
    /\ last.args.spot_min < Unit \div 10
    /\ last.args.vol_min = last.args.vol_max
    /\ \A i \in Indices(last.outcome.spots), j \in Indices(last.outcome.vols) :
          last.outcome.branch[i][j] = "pricer"

====
